---------------------------- MODULE Spec2Model ----------------------------
(***************************************************************************)
(* The workout-log store and statistics aggregator of fittrek:             *)
(* MemStorage (server/storage.ts) and the /api/logs and /api/stats routes  *)
(* (server/routes.ts), with the insertWorkoutLogSchema of shared/schema.   *)
(*                                                                         *)
(* Time is counted in clock ticks (the millisecond of Date.getTime()); a   *)
(* calendar day is DayLen ticks.  A Date is its getTime() value.           *)
(***************************************************************************)
EXTENDS Integers, Sequences, FiniteSets, TLC

(* ------------------------------ bounds --------------------------------- *)
MaxLogs == 3        \* direct createWorkoutLog calls stop once the store holds MaxLogs logs
MaxPosts == 3       \* accepted create-log requests stop once the store holds MaxPosts logs
MaxOwnLogs == 4     \* the logs of the single user of SpecOneUser
MaxDays == 14       \* the longest window asked for in SpecOneUser
MaxTime == 3        \* the clock stops at MaxTime
DayLen  == 2        \* ticks per calendar day
MaxWaterLogs == 7   \* the logs of the single user of SpecWater
MaxExerciseTime == 35   \* the + button of the exercise time is pressed up to here
MaxRestTime == 20       \* the + button of the rest time is pressed up to here
MaxObjects == 2     \* users, workouts, workout days, logs and files together in SpecApp

Users == {1, 2}

(* --------------------------- JavaScript values -------------------------- *)
\* A JavaScript value: t is its type, n its number (or getTime()), s its string.
\* A string is the sequence of its characters.
Undefined   == [t |-> "undefined", n |-> 0, s |-> <<>>]
Null        == [t |-> "null", n |-> 0, s |-> <<>>]
Num(x)      == [t |-> "number", n |-> x, s |-> <<>>]
NaN         == [t |-> "NaN", n |-> 0, s |-> <<>>]
Str(x)      == [t |-> "string", n |-> 0, s |-> x]
DateOf(ms)  == [t |-> "date", n |-> ms, s |-> <<>>]
InvalidDate == [t |-> "invalid-date", n |-> 0, s |-> <<>>]   \* getTime() is NaN
Arr(x)      == [t |-> "array", n |-> 0, s |-> x]

VARIABLES
    workoutLogs,            \* MemStorage.workoutLogs: the Map's values in insertion order
    currentWorkoutLogId,    \* MemStorage.currentWorkoutLogId
    now,                    \* the clock new Date() reads
    last,                   \* the operation just carried out: its arguments and what it returned
    users,                  \* MemStorage.users: the Map's values in insertion order
    workouts,               \* MemStorage.workouts
    workoutDays,            \* MemStorage.workoutDays
    currentUserId,          \* MemStorage.currentUserId
    currentWorkoutId,       \* MemStorage.currentWorkoutId
    currentWorkoutDayId,    \* MemStorage.currentWorkoutDayId
    uploads,                \* the files in the uploads directory, by name
    twin,                   \* a second MemStorage, which gets the calls for TwinUser only
    timer                   \* the state of the WorkoutTimer component and its interval

\* What MemStorage holds besides the logs, and the directory of the uploaded files.
planVars == <<users, workouts, workoutDays, currentUserId, currentWorkoutId,
              currentWorkoutDayId, uploads>>

\* What MemStorage holds of the logs.
logVars == <<workoutLogs, currentWorkoutLogId>>

vars == <<workoutLogs, currentWorkoutLogId, now, last, users, workouts, workoutDays,
          currentUserId, currentWorkoutId, currentWorkoutDayId, uploads, twin,
          timer>>

(* ------------------------------ Map ------------------------------------ *)
\* A map that holds one entry less than it was given: the oldest goes when one is added.
M12_EvictsOldest(m, id, value) ==
    IF m = <<>> THEN <<value>> ELSE Append(Tail(m), value)

\* Map.prototype.set: replaces the value of an existing key in place, else appends.
MapSet(m, id, value) ==
    IF \E i \in DOMAIN m : m[i].id = id
    THEN [i \in DOMAIN m |-> IF m[i].id = id THEN value ELSE m[i]]
    ELSE Append(m, value)

(* ------------------------- createWorkoutLog ----------------------------- *)
\* The counter advanced before it is read: ++this.currentWorkoutLogId.
M30_AdvancesFirst(counter) == counter + 1
\* const id = this.currentWorkoutLogId++ : the id taken, and the counter after it.
TakenLogId(counter) == counter
\* The counter read and never advanced.
M7_CounterKept(counter) == counter
CounterAfterTake(counter) == counter + 1

\* field !== undefined ? field : dflt
OrDefault(field, dflt) == IF field # Undefined THEN field ELSE dflt

\* A record that always takes the clock for its date.
M8_DateAlwaysNow(id, log, clock) ==
    [ id                 |-> id,
      userId             |-> log.userId.n,
      workoutId          |-> OrDefault(log.workoutId, Null),
      date               |-> clock,
      completedExercises |-> OrDefault(log.completedExercises, Num(0)).n,
      waterIntake        |-> OrDefault(log.waterIntake, Num(0)).n,
      duration           |-> OrDefault(log.duration, Num(0)).n,
      notes              |-> OrDefault(log.notes, Null) ]

\* The WorkoutLog built from an InsertWorkoutLog, the id taken and the clock.
NewWorkoutLog(id, log, clock) ==
    [ id                 |-> id,
      userId             |-> log.userId.n,
      workoutId          |-> OrDefault(log.workoutId, Null),
      date               |-> OrDefault(log.date, DateOf(clock)).n,
      completedExercises |-> OrDefault(log.completedExercises, Num(0)).n,
      waterIntake        |-> OrDefault(log.waterIntake, Num(0)).n,
      duration           |-> OrDefault(log.duration, Num(0)).n,
      notes              |-> OrDefault(log.notes, Null) ]

(* --------------------------- getWorkoutLogs ----------------------------- *)
\* if (bound) ... : a Date object is truthy, also an Invalid Date; only an omitted bound is not.
BoundGiven(bound) == bound # Undefined

\* A start bound that leaves out the logs dated exactly startDate.
M1_AfterOnly(log, startDate) == startDate.t = "date" /\ log.date > startDate.n

\* log.date >= startDate: the relational operators compare getTime(); with NaN they are false.
OnOrAfter(log, startDate) == startDate.t = "date" /\ log.date >= startDate.n
\* log.date <= endDate
OnOrBefore(log, endDate) == endDate.t = "date" /\ log.date <= endDate.n

\* A filter that keeps the logs of every user.
M5_AnyOwner(log, userId) == TRUE

\* (log) => log.userId === userId
OwnedBy(log, userId) == log.userId = userId

\* The logs left in the order of the Map.
M6_Unsorted(logs) == logs

\* A sort by date descending that turns logs of equal date around.
M17_TiesReversed(logs) ==
    LET Rank(i) == Cardinality({j \in DOMAIN logs :
                        \/ logs[j].date > logs[i].date
                        \/ logs[j].date = logs[i].date /\ j > i}) + 1
    IN  [k \in DOMAIN logs |-> logs[CHOOSE i \in DOMAIN logs : Rank(i) = k]]

\* logs.sort((a, b) => b.date.getTime() - a.date.getTime()): Array.prototype.sort is stable,
\* so the result is the one ordering by date descending that keeps equal dates in their order.
SortByDateDesc(logs) ==
    LET Rank(i) == Cardinality({j \in DOMAIN logs :
                        \/ logs[j].date > logs[i].date
                        \/ logs[j].date = logs[i].date /\ j < i}) + 1
    IN  [k \in DOMAIN logs |-> logs[CHOOSE i \in DOMAIN logs : Rank(i) = k]]

\* MemStorage.getWorkoutLogs(userId, startDate?, endDate?) with the first filter of the
\* dates starting again from all the values of the Map.
M16_StartBoundRestarts(store, userId, startDate, endDate) ==
    LET own     == SelectSeq(store, LAMBDA log : OwnedBy(log, userId))
        fromS   == IF BoundGiven(startDate)
                   THEN SelectSeq(store, LAMBDA log : OnOrAfter(log, startDate))
                   ELSE own
        toE     == IF BoundGiven(endDate)
                   THEN SelectSeq(fromS, LAMBDA log : OnOrBefore(log, endDate))
                   ELSE fromS
    IN  SortByDateDesc(toE)

\* MemStorage.getWorkoutLogs(userId, startDate?, endDate?) on the Map's values.
\* Array.prototype.filter is SelectSeq.
LogsOf(store, userId, startDate, endDate) ==
    LET own     == SelectSeq(store, LAMBDA log : OwnedBy(log, userId))
        fromS   == IF BoundGiven(startDate)
                   THEN SelectSeq(own, LAMBDA log : OnOrAfter(log, startDate))
                   ELSE own
        toE     == IF BoundGiven(endDate)
                   THEN SelectSeq(fromS, LAMBDA log : OnOrBefore(log, endDate))
                   ELSE fromS
    IN  SortByDateDesc(toE)

(* --------------------------- getWorkoutStats ---------------------------- *)
\* The real number a quotient of integers is, kept exact: num / den, den > 0, reduced.
\* completionPercentage is kept as this number, which its double is nearest to.
RECURSIVE Gcd(_, _)
Gcd(a, b) == IF b = 0 THEN a ELSE Gcd(b, a % b)
Abs(x) == IF x < 0 THEN 0 - x ELSE x
Ratio(a, b) ==
    LET g == Gcd(Abs(a), b)
    IN  [num |-> a \div g, den |-> b \div g]
Whole(x) == [num |-> x, den |-> 1]
RatLE(x, y) == x.num * y.den <= y.num * x.den

\* A JavaScript number as the double it is: neg its sign, bits the MantissaBits binary
\* digits of its significand (the first is 1), exp the exponent of the first digit, so
\* that its value is 1.b2b3... * 2^exp. Zero has no digits.
MantissaBits == 53
FloatZero == [neg |-> FALSE, exp |-> 0, bits |-> <<>>]

\* The binary digits of a natural number, the most significant first; none for 0.
RECURSIVE BitsOfNat(_)
BitsOfNat(q) == IF q = 0 THEN <<>> ELSE Append(BitsOfNat(q \div 2), q % 2)

\* The long division of r by n (r < n) takes eight binary digits at a step, which the
\* numbers of TLC allow for n below 2^23: the remainders after 0 .. steps steps.
RECURSIVE RemainderAfter(_, _, _)
RemainderAfter(r, n, j) ==
    IF j = 0 THEN r ELSE (RemainderAfter(r, n, j - 1) * 256) % n

Remainders(r, n, steps) == [j \in 0 .. steps |-> RemainderAfter(r, n, j)]

\* The first count digits of the quotient, from the remainders.
DigitsOf(rems, n, count) ==
    [k \in 1 .. count |->
        (((rems[(k - 1) \div 8] * 256) \div n) \div 2 ^ (7 - ((k - 1) % 8))) % 2]

ExpandFrom(bits, rems, n, steps) ==
    [bits |-> bits \o DigitsOf(rems, n, steps * 8), rem |-> rems[steps]]

\* bits continued with the digits of r / n (r < n) until there are len of them or a few
\* more, and the remainder left.
Expand(bits, r, n, len) ==
    LET steps == IF Len(bits) >= len THEN 0 ELSE (len - Len(bits) + 7) \div 8
    IN  ExpandFrom(bits, Remainders(r, n, steps), n, steps)

\* r / n (0 < r < n) without the zeros that follow the binary point: the remainder at
\* the first digit 1, and the number k of zeros before it.
RECURSIVE SkipZeros(_, _, _)
SkipZeros(r, n, k) ==
    IF 2 * r >= n THEN [r |-> r, k |-> k] ELSE SkipZeros(2 * r, n, k + 1)

\* The digits of the number one unit in the last place above (not all digits are 1).
RECURSIVE Increment(_)
Increment(bits) ==
    IF bits[Len(bits)] = 0
    THEN [k \in DOMAIN bits |-> IF k = Len(bits) THEN 1 ELSE bits[k]]
    ELSE Append(Increment(SubSeq(bits, 1, Len(bits) - 1)), 0)

\* Rounding to the nearest double, ties to even: the number 1.b2b3... * 2^exp with the
\* digits bits (any number of them, the first is 1), followed by further non-zero digits
\* when more is set.
RoundToDouble(neg, exp, bits, more) ==
    LET mant   == [k \in 1 .. MantissaBits |-> IF k <= Len(bits) THEN bits[k] ELSE 0]
        half   == Len(bits) > MantissaBits /\ bits[MantissaBits + 1] = 1
        sticky == more \/ \E k \in DOMAIN bits : k > MantissaBits + 1 /\ bits[k] = 1
        up     == half /\ (sticky \/ mant[MantissaBits] = 1)
    IN  IF ~up THEN [neg |-> neg, exp |-> exp, bits |-> mant]
        ELSE IF \A k \in DOMAIN mant : mant[k] = 1
        THEN [neg |-> neg, exp |-> exp + 1,
              bits |-> [k \in 1 .. MantissaBits |-> IF k = 1 THEN 1 ELSE 0]]
        ELSE [neg |-> neg, exp |-> exp, bits |-> Increment(mant)]

\* The double nearest to the number with the digits e.bits and the remainder e.rem.
RoundExpanded(neg, exp, e) == RoundToDouble(neg, exp, e.bits, e.rem # 0)

\* t / n for two integers, n > 0: the double nearest to the quotient.
Quotient(t, n) ==
    LET a  == IF t < 0 THEN 0 - t ELSE t
        q0 == a \div n
        r0 == a % n
    IN  IF a = 0 THEN FloatZero
        ELSE IF q0 > 0
        THEN RoundExpanded(t < 0, Len(BitsOfNat(q0)) - 1,
                           Expand(BitsOfNat(q0), r0, n, MantissaBits + 1))
        ELSE LET z == SkipZeros(r0, n, 0)
             IN  RoundExpanded(t < 0, 0 - (z.k + 1),
                               Expand(<<>>, z.r, n, MantissaBits + 1))

\* The quotients of small numbers, computed once.
SmallQuotients == [t \in (0 - 16) .. 16, n \in 1 .. 8 |-> Quotient(t, n)]

\* A division that drops the fraction of the quotient.
M15_IntegerDivision(t, n) ==
    LET q == (IF t < 0 THEN 0 - t ELSE t) \div n
    IN  IF q = 0 THEN FloatZero
        ELSE RoundToDouble(t < 0, Len(BitsOfNat(q)) - 1, BitsOfNat(q), FALSE)

\* totalWaterIntake / totalWorkouts
FloatDiv(t, n) ==
    IF <<t, n>> \in DOMAIN SmallQuotients THEN SmallQuotients[t, n] ELSE Quotient(t, n)

\* logs.reduce((sum, log) => sum + log.waterIntake, 0)
RECURSIVE SumWaterIntake(_)
SumWaterIntake(logs) ==
    IF logs = <<>> THEN 0
    ELSE SumWaterIntake(SubSeq(logs, 1, Len(logs) - 1)) + logs[Len(logs)].waterIntake

\* The reducer of totalWaterIntake copied unchanged to totalDuration.
M3_SumsWaterAgain(logs) == SumWaterIntake(logs)

\* logs.reduce((sum, log) => sum + log.duration, 0)
RECURSIVE SumDuration(_)
SumDuration(logs) ==
    IF logs = <<>> THEN 0
    ELSE SumDuration(SubSeq(logs, 1, Len(logs) - 1)) + logs[Len(logs)].duration

\* startDate.setDate(startDate.getDate() - days), on the clock reading startRead.
WindowStart(startRead, days) == startRead - days * DayLen

\* Math.floor(days / 7) * 3
ExpectedWorkouts(days) == (days \div 7) * 3

\* The percentage without Math.min(100, ...).
M4_Uncapped(totalWorkouts, days) ==
    IF ExpectedWorkouts(days) > 0
    THEN Ratio(totalWorkouts * 100, ExpectedWorkouts(days))
    ELSE Whole(0)

\* expectedWorkouts > 0 ? Math.min(100, (totalWorkouts / expectedWorkouts) * 100) : 0
CompletionPercentage(totalWorkouts, days) ==
    LET expectedWorkouts == ExpectedWorkouts(days)
    IN  IF expectedWorkouts > 0
        THEN LET pct == Ratio(totalWorkouts * 100, expectedWorkouts)
             IN  IF RatLE(Whole(100), pct) THEN Whole(100) ELSE pct
        ELSE Whole(0)

\* The result of getWorkoutStats when getWorkoutLogs returned no log.
EmptyStats ==
    [ totalWorkouts          |-> 0,
      totalWaterIntake       |-> 0,
      totalDuration          |-> 0,
      averageWaterPerWorkout |-> FloatZero,
      completionPercentage   |-> Whole(0),
      lastWorkoutDate        |-> Null ]

\* An aggregate that takes the date of the last element of the list, not of the first.
M14_LastOfList(logs, days) ==
    [ totalWorkouts          |-> Len(logs),
      totalWaterIntake       |-> SumWaterIntake(logs),
      totalDuration          |-> SumDuration(logs),
      averageWaterPerWorkout |-> FloatDiv(SumWaterIntake(logs), Len(logs)),
      completionPercentage   |-> CompletionPercentage(Len(logs), days),
      lastWorkoutDate        |-> DateOf(logs[Len(logs)].date) ]

\* The result of getWorkoutStats when getWorkoutLogs returned at least one log.
Aggregate(logs, days) ==
    LET totalWorkouts    == Len(logs)
        totalWaterIntake == SumWaterIntake(logs)
        totalDuration    == SumDuration(logs)
    IN  [ totalWorkouts          |-> totalWorkouts,
          totalWaterIntake       |-> totalWaterIntake,
          totalDuration          |-> totalDuration,
          averageWaterPerWorkout |-> IF totalWorkouts > 0
                                     THEN FloatDiv(totalWaterIntake, totalWorkouts)
                                     ELSE FloatZero,
          completionPercentage   |-> CompletionPercentage(totalWorkouts, days),
          lastWorkoutDate        |-> IF Len(logs) > 0 THEN DateOf(logs[1].date) ELSE Null ]

\* The WorkoutStats computed from the logs getWorkoutLogs returned.
StatsOf(logs, days) ==
    IF Len(logs) = 0 THEN EmptyStats ELSE Aggregate(logs, days)

(* ------------------------ insertWorkoutLogSchema ------------------------ *)
\* The zod types drizzle-zod derives from the workout_logs columns.
IsNumber(v)  == v.t = "number"              \* integer(...)   -> z.number()
IsString(v)  == v.t = "string"              \* text(...)      -> z.string()
IsDate(v)    == v.t = "date"                \* timestamp(...) -> z.date(), no Invalid Date
Omitted(v)   == v = Undefined               \* a key made optional, not given
IsNull(v)    == v = Null                    \* allowed for a column that is not notNull()

\* insertWorkoutLogSchema.parse(data) succeeds: userId is required; the columns with a
\* default and the keys made partial are optional; workoutId and notes are nullable.
SchemaAccepts(data) ==
    /\ IsNumber(data.userId)
    /\ Omitted(data.workoutId) \/ IsNull(data.workoutId) \/ IsNumber(data.workoutId)
    /\ Omitted(data.date) \/ IsDate(data.date)
    /\ Omitted(data.completedExercises) \/ IsNumber(data.completedExercises)
    /\ Omitted(data.waterIntake) \/ IsNumber(data.waterIntake)
    /\ Omitted(data.duration) \/ IsNumber(data.duration)
    /\ Omitted(data.notes) \/ IsNull(data.notes) \/ IsString(data.notes)

(* ------------------------------ parseInt -------------------------------- *)
Digits == <<"0", "1", "2", "3", "4", "5", "6", "7", "8", "9">>
IsDigit(c) == \E d \in DOMAIN Digits : Digits[d] = c
DigitValue(c) == (CHOOSE d \in DOMAIN Digits : Digits[d] = c) - 1

\* The string without its leading white space.
RECURSIVE TrimStart(_)
TrimStart(str) ==
    IF str # <<>> /\ Head(str) = " " THEN TrimStart(Tail(str)) ELSE str

\* The value of the longest prefix of digits of str, continuing from acc.
RECURSIVE DigitsValue(_, _)
DigitsValue(str, acc) ==
    IF str # <<>> /\ IsDigit(Head(str))
    THEN DigitsValue(Tail(str), acc * 10 + DigitValue(Head(str)))
    ELSE acc

\* parseInt(str): white space, an optional sign, then the leading digits; what follows
\* them is ignored, and NaN when there is no digit.
ParseInt(str) ==
    LET trimmed  == TrimStart(str)
        negative == trimmed # <<>> /\ Head(trimmed) = "-"
        signed   == trimmed # <<>> /\ Head(trimmed) \in {"-", "+"}
        body     == IF signed THEN Tail(trimmed) ELSE trimmed
    IN  IF body = <<>> \/ ~IsDigit(Head(body)) THEN NaN
        ELSE Num(IF negative THEN 0 - DigitsValue(body, 0) ELSE DigitsValue(body, 0))

\* let days = 30
DefaultDays == 30

\* if (req.query.days) { days = parseInt(...); if (isNaN(days) || days <= 0) days = 30 }
DaysOfQuery(queryDays) ==
    IF queryDays = Undefined \/ queryDays.s = <<>>     \* absent, or the empty string: falsy
    THEN DefaultDays
    ELSE LET days == ParseInt(queryDays.s)
         IN  IF days = NaN \/ days.n <= 0 THEN DefaultDays ELSE days.n

(* ------------------------------- inputs --------------------------------- *)
\* An InsertWorkoutLog, and a request body: the same keys, each a JavaScript value.
Insert(userId, workoutId, date, completedExercises, waterIntake, duration, notes) ==
    [ userId |-> userId, workoutId |-> workoutId, date |-> date,
      completedExercises |-> completedExercises, waterIntake |-> waterIntake,
      duration |-> duration, notes |-> notes ]

OnlyUser(userId) ==
    Insert(userId, Undefined, Undefined, Undefined, Undefined, Undefined, Undefined)

SomeNotes == Str(<<"o", "k">>)

\* The logs handed to storage.createWorkoutLog directly: every field omitted, or every
\* field supplied, with a date that is in the future while the clock reads 0.
LogInputs ==
    {OnlyUser(Num(u)) : u \in Users}
    \cup {Insert(Num(1), Num(1), DateOf(1), Num(1), Num(2), Num(5), SomeNotes)}

\* The bounds handed to storage.getWorkoutLogs; an endDate may be before the startDate.
StartBounds == {Undefined, InvalidDate, DateOf(1)}
EndBounds   == {Undefined, DateOf(2), DateOf(0)}

\* The window lengths handed to storage.getWorkoutStats directly.
StatsDays == {1, 7}

\* The JSON bodies of create-log requests: every numeric field supplied (and another
\* user's id), a negative waterIntake, a date (JSON has strings, not Date objects).
Bodies ==
    { Insert(Num(2), Num(1), Undefined, Num(1), Num(2), Num(5), SomeNotes),
      Insert(Undefined, Null, Undefined, Undefined, Num(0 - 1), Undefined, Null),
      Insert(Undefined, Undefined, Str(<<"1">>), Undefined, Undefined, Undefined, Undefined) }

\* The days parameter of get-stats requests.
QueryDays ==
    { Undefined, Str(<<>>), Str(<<"7">>), Str(<<"0">>), Str(<<"-", "1">>), Str(<<"x">>),
      Str(<<"5", "x">>) }

\* req.user: Undefined without an authenticated session, else the user logged in.
Sessions == {Undefined, Num(1)}

(* ------------------------------ the store ------------------------------- *)
Init ==
    /\ workoutLogs = <<>>
    /\ currentWorkoutLogId = 1
    /\ now = 0
    /\ last = [op |-> "init"]
    /\ users = <<>>
    /\ workouts = <<>>
    /\ workoutDays = <<>>
    /\ currentUserId = 1
    /\ currentWorkoutId = 1
    /\ currentWorkoutDayId = 1
    /\ uploads = {}
    /\ twin = [workoutLogs |-> <<>>, currentWorkoutLogId |-> 1]
    /\ timer = [ exerciseTime  |-> 30,          \* useState(30)
                 restTime      |-> 15,          \* useState(15)
                 timeRemaining |-> 0,
                 isRunning     |-> FALSE,
                 timerMode     |-> "exercise",
                 interval      |-> [active |-> FALSE, timerMode |-> "exercise",
                                    exerciseTime |-> 0, restTime |-> 0] ]

\* Time passes.
Tick ==
    /\ now < MaxTime
    /\ now' = now + 1
    /\ last' = [op |-> "tick"]
    /\ UNCHANGED <<timer, twin, workoutLogs, currentWorkoutLogId, planVars>>

\* The record createWorkoutLog(log) returns, and the store after it. The function has no
\* await: a call runs from its first statement to its return with nothing in between.
CreatedLog(log) == NewWorkoutLog(TakenLogId(currentWorkoutLogId), log, now)

StoreCreate(log) ==
    /\ currentWorkoutLogId' = CounterAfterTake(currentWorkoutLogId)
    /\ workoutLogs' = MapSet(workoutLogs, CreatedLog(log).id, CreatedLog(log))

\* storage.createWorkoutLog(log)
createWorkoutLog(log) ==
    /\ Len(workoutLogs) < MaxLogs
    /\ StoreCreate(log)
    /\ last' = [op |-> "createWorkoutLog", log |-> log, result |-> CreatedLog(log)]
    /\ UNCHANGED <<timer, twin, now, planVars>>

\* A query that filters the store itself: what it returns is all the store keeps.
M13_FiltersInPlace(userId, startDate, endDate) ==
    /\ last' = [op |-> "getWorkoutLogs", userId |-> userId, startDate |-> startDate,
                endDate |-> endDate,
                result |-> LogsOf(workoutLogs, userId, startDate, endDate)]
    /\ workoutLogs' = LogsOf(workoutLogs, userId, startDate, endDate)
    /\ UNCHANGED <<timer, twin, currentWorkoutLogId, now, planVars>>

\* A getWorkoutLogs that refuses a startDate after the endDate.
M22_RefusesInvertedBounds(userId, startDate, endDate) ==
    /\ last' = IF startDate.t = "date" /\ endDate.t = "date" /\ startDate.n > endDate.n
               THEN [op |-> "getWorkoutLogs", userId |-> userId, startDate |-> startDate,
                     endDate |-> endDate, error |-> "RangeError"]
               ELSE [op |-> "getWorkoutLogs", userId |-> userId, startDate |-> startDate,
                     endDate |-> endDate,
                     result |-> LogsOf(workoutLogs, userId, startDate, endDate)]
    /\ UNCHANGED <<timer, twin, workoutLogs, currentWorkoutLogId, now, planVars>>

\* storage.getWorkoutLogs(userId, startDate, endDate)
getWorkoutLogs(userId, startDate, endDate) ==
    /\ last' = [op |-> "getWorkoutLogs", userId |-> userId, startDate |-> startDate,
                endDate |-> endDate,
                result |-> LogsOf(workoutLogs, userId, startDate, endDate)]
    /\ UNCHANGED <<timer, twin, workoutLogs, currentWorkoutLogId, now, planVars>>

\* A call that reports the time of the request as the date of the last workout.
M11_LastIsNow(userId, days, endRead, startRead) ==
    LET endDate   == DateOf(endRead)
        startDate == DateOf(WindowStart(startRead, days))
        logs      == LogsOf(workoutLogs, userId, startDate, endDate)
    IN  [ userId |-> userId, days |-> days, endDate |-> endDate, startDate |-> startDate,
          startRead |-> startRead, logs |-> logs,
          result |-> [StatsOf(logs, days) EXCEPT !.lastWorkoutDate =
                          IF Len(logs) > 0 THEN endDate ELSE Null] ]

\* What getWorkoutStats(userId, days) computes when new Date() returns endRead for endDate
\* and startRead for startDate.
StatsCall(userId, days, endRead, startRead) ==
    LET endDate   == DateOf(endRead)
        startDate == DateOf(WindowStart(startRead, days))
        logs      == LogsOf(workoutLogs, userId, startDate, endDate)
    IN  [ userId |-> userId, days |-> days, endDate |-> endDate, startDate |-> startDate,
          startRead |-> startRead, logs |-> logs, result |-> StatsOf(logs, days) ]

\* The clock is read twice, for endDate and then for startDate: it may have advanced
\* in between, by any amount.
ClockReads == {<<now, t>> : t \in now .. MaxTime}

\* storage.getWorkoutStats(userId, days)
getWorkoutStats(userId, days) ==
    \E reads \in ClockReads :
        /\ last' = [op |-> "getWorkoutStats",
                    call |-> StatsCall(userId, days, reads[1], reads[2])]
        /\ now' = reads[2]
        /\ UNCHANGED <<timer, twin, workoutLogs, currentWorkoutLogId, planVars>>

(* ------------------------------ the routes ------------------------------ *)
\* A handler without the isAuthenticated() test: the userId of no session is undefined
\* and the schema refuses it.
M27_NoSessionTest(user, body) ==
    LET data == [body EXCEPT !.userId = user]
    IN  IF SchemaAccepts(data)
        THEN /\ Len(workoutLogs) < MaxPosts
             /\ StoreCreate(data)
             /\ last' = [op |-> "POST /api/logs", user |-> user, body |-> body,
                         status |-> 201, json |-> CreatedLog(data)]
             /\ UNCHANGED <<timer, twin, now, planVars>>
        ELSE /\ last' = [op |-> "POST /api/logs", user |-> user, body |-> body,
                         status |-> 400]
             /\ UNCHANGED <<timer, twin, workoutLogs, currentWorkoutLogId, now, planVars>>

\* A handler that spreads the body over the userId: {userId, ...req.body}.
M26_BodyWins(user, body) ==
    IF user = Undefined
    THEN /\ last' = [op |-> "POST /api/logs", user |-> user, body |-> body, status |-> 401]
         /\ UNCHANGED <<timer, twin, workoutLogs, currentWorkoutLogId, now, planVars>>
    ELSE LET data == IF body.userId = Undefined THEN [body EXCEPT !.userId = user]
                     ELSE body
         IN  IF SchemaAccepts(data)
             THEN /\ Len(workoutLogs) < MaxPosts
                  /\ StoreCreate(data)
                  /\ last' = [op |-> "POST /api/logs", user |-> user, body |-> body,
                              status |-> 201, json |-> CreatedLog(data)]
                  /\ UNCHANGED <<timer, twin, now, planVars>>
             ELSE /\ last' = [op |-> "POST /api/logs", user |-> user, body |-> body,
                              status |-> 400]
                  /\ UNCHANGED <<timer, twin, workoutLogs, currentWorkoutLogId, now, planVars>>

\* A handler that takes the id of the log before it validates the body.
M18_TakesIdFirst(user, body) ==
    IF user = Undefined
    THEN /\ last' = [op |-> "POST /api/logs", user |-> user, body |-> body, status |-> 401]
         /\ UNCHANGED <<timer, twin, workoutLogs, currentWorkoutLogId, now, planVars>>
    ELSE LET data == [body EXCEPT !.userId = user]
         IN  IF SchemaAccepts(data)
             THEN /\ Len(workoutLogs) < MaxPosts
                  /\ StoreCreate(data)
                  /\ last' = [op |-> "POST /api/logs", user |-> user, body |-> body,
                              status |-> 201, json |-> CreatedLog(data)]
                  /\ UNCHANGED <<timer, twin, now, planVars>>
             ELSE /\ last' = [op |-> "POST /api/logs", user |-> user, body |-> body,
                              status |-> 400]
                  /\ currentWorkoutLogId' = CounterAfterTake(currentWorkoutLogId)
                  /\ currentWorkoutLogId < MaxPosts
                  /\ UNCHANGED <<timer, twin, workoutLogs, now, planVars>>

\* POST /api/logs
PostLogs(user, body) ==
    IF user = Undefined
    THEN /\ last' = [op |-> "POST /api/logs", user |-> user, body |-> body, status |-> 401]
         /\ UNCHANGED <<timer, twin, workoutLogs, currentWorkoutLogId, now, planVars>>
    ELSE LET data == [body EXCEPT !.userId = user]      \* {...req.body, userId}
         IN  IF SchemaAccepts(data)
             THEN /\ Len(workoutLogs) < MaxPosts
                  /\ StoreCreate(data)
                  /\ last' = [op |-> "POST /api/logs", user |-> user, body |-> body,
                              status |-> 201, json |-> CreatedLog(data)]
                  /\ UNCHANGED <<timer, twin, now, planVars>>
             ELSE /\ last' = [op |-> "POST /api/logs", user |-> user, body |-> body,
                              status |-> 400]
                  /\ UNCHANGED <<timer, twin, workoutLogs, currentWorkoutLogId, now, planVars>>

\* GET /api/stats
GetStats(user, queryDays) ==
    IF user = Undefined
    THEN /\ last' = [op |-> "GET /api/stats", user |-> user, queryDays |-> queryDays,
                     status |-> 401]
         /\ UNCHANGED <<timer, twin, workoutLogs, currentWorkoutLogId, now, planVars>>
    ELSE \E reads \in ClockReads :
            /\ last' = [op |-> "GET /api/stats", user |-> user, queryDays |-> queryDays,
                        status |-> 200,
                        call |-> StatsCall(user.n, DaysOfQuery(queryDays), reads[1], reads[2])]
            /\ now' = reads[2]
            /\ UNCHANGED <<timer, twin, workoutLogs, currentWorkoutLogId, planVars>>

(* --------------------------- specifications ----------------------------- *)
\* MemStorage under any caller of its log operations.
Next ==
    \/ Tick
    \/ \E log \in LogInputs : createWorkoutLog(log)
    \/ \E u \in Users, s \in StartBounds, e \in EndBounds : getWorkoutLogs(u, s, e)
    \/ \E u \in Users, d \in StatsDays : getWorkoutStats(u, d)

Spec == Init /\ [][Next]_vars

\* MemStorage behind the HTTP routes.
NextRoutes ==
    \/ Tick
    \/ \E user \in Sessions, body \in Bodies : PostLogs(user, body)
    \/ \E user \in Sessions, q \in QueryDays : GetStats(user, q)

SpecRoutes == Init /\ [][NextRoutes]_vars

\* MemStorage with one user who logs workouts without supplying any field.
createOwnLog ==
    /\ Len(workoutLogs) < MaxOwnLogs
    /\ StoreCreate(OnlyUser(Num(1)))
    /\ last' = [op |-> "createWorkoutLog", log |-> OnlyUser(Num(1)),
                result |-> CreatedLog(OnlyUser(Num(1)))]
    /\ UNCHANGED <<timer, twin, now, planVars>>

NextOneUser ==
    \/ Tick
    \/ createOwnLog
    \/ \E d \in 1 .. MaxDays : getWorkoutStats(1, d)

SpecOneUser == Init /\ [][NextOneUser]_vars

\* Two histories side by side: every call goes to the MemStorage of the variables above,
\* and the calls for TwinUser go to the second MemStorage as well, at the same instant.
TwinUser == 1

\* createWorkoutLog(log) on the second MemStorage.
TwinCreate(log) ==
    LET id == TakenLogId(twin.currentWorkoutLogId)
    IN  [ workoutLogs         |-> MapSet(twin.workoutLogs, id, NewWorkoutLog(id, log, now)),
          currentWorkoutLogId |-> CounterAfterTake(twin.currentWorkoutLogId) ]

\* storage.createWorkoutLog(log), in both histories when it is a call for TwinUser
createInBoth(log) ==
    /\ Len(workoutLogs) < MaxLogs
    /\ StoreCreate(log)
    /\ twin' = IF log.userId = Num(TwinUser) THEN TwinCreate(log) ELSE twin
    /\ last' = [op |-> "createWorkoutLog", log |-> log, result |-> CreatedLog(log)]
    /\ UNCHANGED <<timer, now, planVars>>

\* storage.getWorkoutLogs(TwinUser, startDate, endDate), in both histories
listInBoth(startDate, endDate) ==
    /\ last' = [op |-> "getWorkoutLogs", userId |-> TwinUser, startDate |-> startDate,
                endDate |-> endDate,
                result |-> LogsOf(workoutLogs, TwinUser, startDate, endDate),
                twin   |-> LogsOf(twin.workoutLogs, TwinUser, startDate, endDate)]
    /\ UNCHANGED <<timer, twin, workoutLogs, currentWorkoutLogId, now, planVars>>

\* storage.getWorkoutStats(TwinUser, days), in both histories
statsInBoth(days) ==
    \E reads \in ClockReads :
        /\ last' = [op |-> "getWorkoutStats",
                    call |-> StatsCall(TwinUser, days, reads[1], reads[2]),
                    twin |-> StatsOf(LogsOf(twin.workoutLogs, TwinUser,
                                            DateOf(WindowStart(reads[2], days)),
                                            DateOf(reads[1])), days)]
        /\ now' = reads[2]
        /\ UNCHANGED <<timer, twin, workoutLogs, currentWorkoutLogId, planVars>>

NextTwin ==
    \/ Tick
    \/ \E log \in LogInputs : createInBoth(log)
    \/ \E s \in StartBounds, e \in EndBounds : listInBoth(s, e)
    \/ \E d \in StatsDays : statsInBoth(d)

SpecTwin == Init /\ [][NextTwin]_vars

\* The water a log of SpecWater records, in millilitres.
WaterIntakes == {100, 300}

\* The single user logs a workout and the water drunk, supplying nothing else.
logWater(w) ==
    LET log == [OnlyUser(Num(1)) EXCEPT !.waterIntake = Num(w)]
    IN  /\ Len(workoutLogs) < MaxWaterLogs
        /\ StoreCreate(log)
        /\ last' = [op |-> "createWorkoutLog", log |-> log, result |-> CreatedLog(log)]
        /\ UNCHANGED <<timer, twin, now, planVars>>

\* MemStorage with one user who logs water and reads the statistics of the default
\* window, at one instant.
NextWater ==
    \/ \E w \in WaterIntakes : logWater(w)
    \/ getWorkoutStats(1, DefaultDays) /\ now' = now

SpecWater == Init /\ [][NextWater]_vars

\* A caller that has the answer of getWorkoutStats waits before asking again: time
\* passes, the answer it holds stays what it was.
Elapse ==
    /\ last.op \in {"getWorkoutStats", "held"}
    /\ now < MaxTime
    /\ now' = now + 1
    /\ last' = [op |-> "held", call |-> last.call]
    /\ UNCHANGED <<timer, twin, workoutLogs, currentWorkoutLogId, planVars>>

\* MemStorage under a caller that asks for its statistics again and again.
NextRepeat ==
    \/ Tick
    \/ Elapse
    \/ \E log \in LogInputs : createWorkoutLog(log)
    \/ \E u \in Users, d \in StatsDays : getWorkoutStats(u, d)

SpecRepeat == Init /\ [][NextRepeat]_vars

(* ----------------------- users, workouts, workout days ------------------- *)
\* A value that is false in a condition: undefined, null, NaN, 0, "".
Falsy(v) == v \in {Undefined, Null, NaN, Num(0), Str(<<>>)}

\* v || dflt
OrElse(v, dflt) == IF Falsy(v) THEN dflt ELSE v

\* Map.prototype.get: the value stored under id, undefined when there is none.
MapGet(m, id) ==
    IF \E i \in DOMAIN m : m[i].id = id
    THEN m[CHOOSE i \in DOMAIN m : m[i].id = id]
    ELSE Undefined

\* The User createUser builds from an InsertUser and the id taken.
NewUser(id, insertUser) ==
    [ id           |-> id,
      username     |-> insertUser.username,
      password     |-> insertUser.password,
      fullName     |-> OrElse(insertUser.fullName, Null),
      age          |-> OrElse(insertUser.age, Null),
      profileImage |-> Null,
      weight       |-> OrElse(insertUser.weight, Num(70000)),
      height       |-> OrElse(insertUser.height, Num(170)) ]

\* The User updateUserStats stores: weight and height replaced, fullName and age
\* replaced when given.
UserWithStats(user, weight, height, fullName, age) ==
    [user EXCEPT !.weight = weight, !.height = height,
                 !.fullName = OrDefault(fullName, user.fullName),
                 !.age = OrDefault(age, user.age)]

\* The Workout createWorkout builds: { ...insertWorkout, id, pdfUrl: null }.
NewWorkout(id, insertWorkout) ==
    [ id |-> id, userId |-> insertWorkout.userId, name |-> insertWorkout.name,
      pdfUrl |-> Null ]

\* The WorkoutDay createWorkoutDay builds: exercises is kept when it is an array, and
\* is the empty array otherwise.
NewWorkoutDay(id, insertWorkoutDay) ==
    [ id |-> id, workoutId |-> insertWorkoutDay.workoutId, day |-> insertWorkoutDay.day,
      name |-> insertWorkoutDay.name,
      exercises |-> IF insertWorkoutDay.exercises.t = "array"      \* Array.isArray
                    THEN insertWorkoutDay.exercises ELSE Arr(<<>>) ]

\* getWorkouts(userId), getWorkoutDays(workoutId)
WorkoutsOf(userId) == SelectSeq(workouts, LAMBDA workout : workout.userId = userId)
DaysOf(workoutId) == SelectSeq(workoutDays, LAMBDA workoutDay : workoutDay.workoutId = workoutId)

\* The store after createUser, createWorkout, createWorkoutDay, updateWorkoutPdf,
\* updateUserProfileImage and updateUserStats; each function runs without an await.
StoreCreateUser(insertUser) ==
    /\ users' = MapSet(users, currentUserId, NewUser(currentUserId, insertUser))
    /\ currentUserId' = currentUserId + 1

StoreCreateWorkout(insertWorkout) ==
    /\ workouts' = MapSet(workouts, currentWorkoutId, NewWorkout(currentWorkoutId, insertWorkout))
    /\ currentWorkoutId' = currentWorkoutId + 1

StoreCreateWorkoutDay(insertWorkoutDay) ==
    /\ workoutDays' = MapSet(workoutDays, currentWorkoutDayId,
                             NewWorkoutDay(currentWorkoutDayId, insertWorkoutDay))
    /\ currentWorkoutDayId' = currentWorkoutDayId + 1

\* if (!workout) throw ... : the caller checks MapGet(workouts, id) first.
StoreUpdateWorkoutPdf(id, pdfUrl) ==
    workouts' = MapSet(workouts, id, [MapGet(workouts, id) EXCEPT !.pdfUrl = pdfUrl])

StoreUpdateUserProfileImage(userId, profileImage) ==
    users' = MapSet(users, userId, [MapGet(users, userId) EXCEPT !.profileImage = profileImage])

StoreUpdateUserStats(userId, weight, height, fullName, age) ==
    users' = MapSet(users, userId,
                    UserWithStats(MapGet(users, userId), weight, height, fullName, age))

(* --------------------- the store: users and workouts --------------------- *)
\* storage.createUser(insertUser), as the registration of a user calls it.
createUser(insertUser) ==
    /\ StoreCreateUser(insertUser)
    /\ last' = [op |-> "createUser", result |-> NewUser(currentUserId, insertUser)]
    /\ UNCHANGED <<timer, twin, logVars, now, workouts, workoutDays, currentWorkoutId,
                   currentWorkoutDayId, uploads>>

(* ----------------------- the routes: workouts, users --------------------- *)
\* The file multer.diskStorage writes for the field "csv" and for the field "profileImage".
\* A path is the string of its directory and its file name.
CsvPath(name)   == Str(<<"/uploads/", name>>)
ImagePath(name) == Str(<<"/uploads/profile-images/", name>>)

\* url && url.startsWith("/uploads/")
InUploads(url) ==
    /\ ~Falsy(url)
    /\ url.s[1] \in {"/uploads/", "/uploads/profile-images/"}

\* The uploads directory once multer has stored the file of the request, if it took one;
\* this is done before the handler of the route runs.
Stored(path) == IF path = Undefined THEN uploads ELSE uploads \cup {path}

\* parseInt(req.params.id), then storage.getWorkout(id): undefined for NaN or an unknown id.
WorkoutOfParam(idParam) ==
    LET id == ParseInt(idParam.s)
    IN  IF id = NaN THEN Undefined ELSE MapGet(workouts, id.n)

\* GET /api/workouts
GetWorkouts(user) ==
    /\ last' = IF user = Undefined
               THEN [op |-> "GET /api/workouts", user |-> user, status |-> 401]
               ELSE [op |-> "GET /api/workouts", user |-> user, status |-> 200,
                     json |-> WorkoutsOf(user.n)]
    /\ UNCHANGED <<timer, twin, logVars, now, planVars>>

\* POST /api/workouts
PostWorkouts(user, body) ==
    IF user = Undefined
    THEN /\ last' = [op |-> "POST /api/workouts", user |-> user, status |-> 401]
         /\ UNCHANGED <<timer, twin, logVars, now, planVars>>
    ELSE LET insertWorkout == [userId |-> user.n, name |-> body.name]
         IN  /\ StoreCreateWorkout(insertWorkout)
             /\ last' = [op |-> "POST /api/workouts", user |-> user, status |-> 201,
                         json |-> NewWorkout(currentWorkoutId, insertWorkout)]
             /\ UNCHANGED <<timer, twin, logVars, now, users, workoutDays, currentUserId,
                            currentWorkoutDayId, uploads>>

\* POST /api/workouts/:id/csv (and /pdf); file is the name multer gave the file it
\* stored, undefined when the request carried no file the filter lets through.
UploadCsv(user, idParam, file) ==
    LET path    == IF file = Undefined THEN Undefined ELSE CsvPath(file.s[1])
        workout == WorkoutOfParam(idParam)
        answer(status) == [op |-> "POST /api/workouts/:id/csv", user |-> user,
                           idParam |-> idParam, path |-> path, status |-> status]
    IN  IF user = Undefined
        THEN /\ last' = answer(401)
             /\ uploads' = Stored(path)
             /\ UNCHANGED <<timer, twin, logVars, now, users, workouts, workoutDays, currentUserId,
                            currentWorkoutId, currentWorkoutDayId>>
        ELSE IF path = Undefined
        THEN /\ last' = answer(400)
             /\ UNCHANGED <<timer, twin, logVars, now, planVars>>
        ELSE IF workout = Undefined
        THEN /\ last' = answer(404)
             /\ uploads' = Stored(path) \ {path}                 \* fs.unlinkSync(req.file.path)
             /\ UNCHANGED <<timer, twin, logVars, now, users, workouts, workoutDays, currentUserId,
                            currentWorkoutId, currentWorkoutDayId>>
        ELSE IF workout.userId # user.n
        THEN /\ last' = answer(403)
             /\ uploads' = Stored(path) \ {path}
             /\ UNCHANGED <<timer, twin, logVars, now, users, workouts, workoutDays, currentUserId,
                            currentWorkoutId, currentWorkoutDayId>>
        ELSE /\ uploads' = IF InUploads(workout.pdfUrl)   \* the previous file is deleted
                           THEN Stored(path) \ {workout.pdfUrl}
                           ELSE Stored(path)
             /\ StoreUpdateWorkoutPdf(workout.id, path)
             /\ last' = answer(200) @@ [json |-> [workout EXCEPT !.pdfUrl = path]]
             /\ UNCHANGED <<timer, twin, logVars, now, users, workoutDays, currentUserId,
                            currentWorkoutId, currentWorkoutDayId>>

\* POST /api/user/profile-image
UploadProfileImage(user, file) ==
    LET path    == IF file = Undefined THEN Undefined ELSE ImagePath(file.s[1])
        stored  == IF user = Undefined THEN Undefined ELSE MapGet(users, user.n)
        answer(status) == [op |-> "POST /api/user/profile-image", user |-> user,
                           path |-> path, status |-> status]
    IN  IF user = Undefined
        THEN /\ last' = answer(401)
             /\ uploads' = Stored(path)
             /\ UNCHANGED <<timer, twin, logVars, now, users, workouts, workoutDays, currentUserId,
                            currentWorkoutId, currentWorkoutDayId>>
        ELSE IF path = Undefined
        THEN /\ last' = answer(400)
             /\ UNCHANGED <<timer, twin, logVars, now, planVars>>
        ELSE IF stored = Undefined                 \* updateUserProfileImage throws
        THEN /\ last' = answer(500)
             /\ uploads' = Stored(path)
             /\ UNCHANGED <<timer, twin, logVars, now, users, workouts, workoutDays, currentUserId,
                            currentWorkoutId, currentWorkoutDayId>>
        ELSE /\ uploads' = IF InUploads(stored.profileImage)
                           THEN Stored(path) \ {stored.profileImage}
                           ELSE Stored(path)
             /\ StoreUpdateUserProfileImage(user.n, path)
             /\ last' = answer(200) @@ [json |-> [stored EXCEPT !.profileImage = path]]
             /\ UNCHANGED <<timer, twin, logVars, now, workouts, workoutDays, currentUserId,
                            currentWorkoutId, currentWorkoutDayId>>

\* The checks of PUT /api/user/stats on weight, height, fullName and age.
StatsBodyValid(body) ==
    /\ ~Falsy(body.weight) /\ ~Falsy(body.height)
    /\ IsNumber(body.weight) /\ IsNumber(body.height)
    /\ body.weight.n >= 30000 /\ body.weight.n <= 300000
    /\ body.height.n >= 100 /\ body.height.n <= 250
    /\ body.fullName = Undefined \/ (~Falsy(body.fullName) /\ IsString(body.fullName))
    /\ body.age = Undefined \/ (IsNumber(body.age) /\ body.age.n >= 12 /\ body.age.n <= 100)

\* PUT /api/user/stats
PutUserStats(user, body) ==
    LET answer(status) == [op |-> "PUT /api/user/stats", user |-> user, body |-> body,
                           status |-> status]
    IN  IF user = Undefined
        THEN last' = answer(401) /\ UNCHANGED <<timer, twin, logVars, now, planVars>>
        ELSE IF ~StatsBodyValid(body)
        THEN last' = answer(400) /\ UNCHANGED <<timer, twin, logVars, now, planVars>>
        ELSE IF MapGet(users, user.n) = Undefined          \* updateUserStats throws
        THEN last' = answer(500) /\ UNCHANGED <<timer, twin, logVars, now, planVars>>
        ELSE /\ StoreUpdateUserStats(user.n, body.weight, body.height, body.fullName, body.age)
             /\ last' = answer(200) @@
                        [json |-> UserWithStats(MapGet(users, user.n), body.weight,
                                                body.height, body.fullName, body.age)]
             /\ UNCHANGED <<timer, twin, logVars, now, workouts, workoutDays, currentUserId,
                            currentWorkoutId, currentWorkoutDayId, uploads>>

\* GET /api/workouts/:id
\* with no check of the owner of the workout: a handler that sends it to any user.
M24_SkipsOwnerCheck(user, idParam) ==
    LET workout == WorkoutOfParam(idParam)
        answer(status) == [op |-> "GET /api/workouts/:id", user |-> user,
                           idParam |-> idParam, status |-> status]
    IN  /\ last' = IF user = Undefined THEN answer(401)
                   ELSE IF workout = Undefined THEN answer(404)
                   ELSE answer(200) @@ [json |-> workout]
        /\ UNCHANGED <<timer, twin, logVars, now, planVars>>

\* GET /api/workouts/:id
GetWorkout(user, idParam) ==
    LET workout == WorkoutOfParam(idParam)
        answer(status) == [op |-> "GET /api/workouts/:id", user |-> user,
                           idParam |-> idParam, status |-> status]
    IN  /\ last' = IF user = Undefined THEN answer(401)
                   ELSE IF workout = Undefined THEN answer(404)
                   ELSE IF workout.userId # user.n THEN answer(403)
                   ELSE answer(200) @@ [json |-> workout]
        /\ UNCHANGED <<timer, twin, logVars, now, planVars>>

\* GET /api/workouts/:workoutId/days
GetWorkoutDays(user, idParam) ==
    LET workout == WorkoutOfParam(idParam)
        answer(status) == [op |-> "GET /api/workouts/:workoutId/days", user |-> user,
                           idParam |-> idParam, status |-> status]
    IN  /\ last' = IF user = Undefined THEN answer(401)
                   ELSE IF workout = Undefined THEN answer(404)
                   ELSE IF workout.userId # user.n THEN answer(403)
                   ELSE answer(200) @@ [json |-> DaysOf(workout.id)]
        /\ UNCHANGED <<timer, twin, logVars, now, planVars>>

\* POST /api/workouts/:workoutId/days
PostWorkoutDays(user, idParam, body) ==
    LET workout == WorkoutOfParam(idParam)
        answer(status) == [op |-> "POST /api/workouts/:workoutId/days", user |-> user,
                           idParam |-> idParam, status |-> status]
    IN  IF user = Undefined
        THEN last' = answer(401) /\ UNCHANGED <<timer, twin, logVars, now, planVars>>
        ELSE IF workout = Undefined
        THEN last' = answer(404) /\ UNCHANGED <<timer, twin, logVars, now, planVars>>
        ELSE IF workout.userId # user.n
        THEN last' = answer(403) /\ UNCHANGED <<timer, twin, logVars, now, planVars>>
        ELSE LET insertWorkoutDay == [workoutId |-> workout.id, day |-> body.day,
                                      name |-> body.name, exercises |-> body.exercises]
             IN  /\ StoreCreateWorkoutDay(insertWorkoutDay)
                 /\ last' = answer(201) @@
                            [json |-> NewWorkoutDay(currentWorkoutDayId, insertWorkoutDay)]
                 /\ UNCHANGED <<timer, twin, logVars, now, users, workouts, currentUserId,
                                currentWorkoutId, uploads>>

\* new Date(str) for the strings the model has: decimal digits are the time they spell,
\* anything else cannot be parsed.
DateFromString(str) ==
    IF str # <<>> /\ \A k \in DOMAIN str : IsDigit(str[k])
    THEN DateOf(DigitsValue(str, 0))
    ELSE InvalidDate

\* if (req.query.x) { x = new Date(req.query.x) }: absent and "" leave x undefined.
BoundOfQuery(q) == IF q = Undefined \/ q.s = <<>> THEN Undefined ELSE DateFromString(q.s)

\* GET /api/logs
GetLogs(user, startQuery, endQuery) ==
    LET answer(status) == [op |-> "GET /api/logs", user |-> user, startQuery |-> startQuery,
                           endQuery |-> endQuery, status |-> status]
    IN  /\ last' = IF user = Undefined THEN answer(401)
                   ELSE answer(200) @@
                        [json |-> LogsOf(workoutLogs, user.n, BoundOfQuery(startQuery),
                                         BoundOfQuery(endQuery))]
        /\ UNCHANGED <<timer, twin, logVars, now, planVars>>

\* The startDate and endDate parameters of list-logs requests: absent, the text of a
\* timestamp, a text that is none.
StartQueries == {Undefined, Str(<<"1">>), Str(<<"x">>)}
EndQueries   == {Undefined, Str(<<"2">>)}

\* The three routes of the logs: POST /api/logs, GET /api/logs and GET /api/stats.
NextSurface ==
    \/ Tick
    \/ \E user \in Sessions, body \in Bodies : PostLogs(user, body)
    \/ \E user \in Sessions, s \in StartQueries, e \in EndQueries : GetLogs(user, s, e)
    \/ \E user \in Sessions, q \in QueryDays : GetStats(user, q)

SpecSurface == Init /\ [][NextSurface]_vars

(* --------------------------- the application --------------------------- *)
\* req.user of the requests: none, or one of two users with a session.
AppSessions == {Undefined, Num(1), Num(2)}

\* The InsertUser of a registration: only username and password, a height of 0.
InsertUsers ==
    { [ username |-> Str(<<"a">>), password |-> Str(<<"p">>), fullName |-> Undefined,
        age |-> Undefined, weight |-> Undefined, height |-> Num(0) ] }

\* req.body of POST /api/workouts.
WorkoutBodies == { [name |-> Str(<<"A">>)] }

\* req.params.id and req.params.workoutId: the first workout, and not a number.
IdParams == { Str(<<"1">>), Str(<<"x">>) }

\* The names multer gives the files it stores (Date.now() and a random number), and
\* the file of an upload request: none, or a stored file. Two CSV files may get the
\* same name or different ones.
FileNames == {"1", "2"}
Files == {Undefined} \cup {Str(<<name>>) : name \in FileNames}
ImageFiles == {Undefined, Str(<<"1">>)}

\* req.body of PUT /api/user/stats: valid, and a weight of 0.
StatsBodies ==
    { [weight |-> Num(80000), height |-> Num(180), fullName |-> Undefined, age |-> Num(30)],
      [weight |-> Num(0), height |-> Num(180), fullName |-> Undefined, age |-> Undefined] }

\* req.body of POST /api/workouts/:workoutId/days: exercises an array, and not one.
DayBodies ==
    { [day |-> Str(<<"1">>), name |-> Str(<<"A">>), exercises |-> Arr(<<"squat">>)],
      [day |-> Str(<<"1">>), name |-> Str(<<"A">>), exercises |-> Null] }

\* req.body of the application's create-log requests: a count, the rest omitted.
AppBodies ==
    { Insert(Undefined, Undefined, Undefined, Undefined, Num(2), Undefined, Undefined) }

\* The users, workouts, workout days, logs and files the store and the uploads
\* directory hold together.
Objects ==
    Len(users) + Len(workouts) + Len(workoutDays) + Len(workoutLogs) + Cardinality(uploads)

\* The application is followed while it holds MaxObjects objects at most, and at one
\* instant: the clock is the same at every reading.
Within == Objects' <= MaxObjects
Instant == now' = now

\* The requests handled by registerRoutes, the registration of users, and the two
\* queries of MemStorage called directly.
NextApp ==
    \/ \E insertUser \in InsertUsers : createUser(insertUser) /\ Within
    \/ \E user \in AppSessions : GetWorkouts(user)
    \/ \E user \in AppSessions, body \in WorkoutBodies : PostWorkouts(user, body) /\ Within
    \/ \E user \in AppSessions, id \in IdParams, file \in Files :
          UploadCsv(user, id, file) /\ Within
    \/ \E user \in AppSessions, file \in ImageFiles : UploadProfileImage(user, file) /\ Within
    \/ \E user \in AppSessions, body \in StatsBodies : PutUserStats(user, body)
    \/ \E user \in AppSessions, id \in IdParams : GetWorkout(user, id)
    \/ \E user \in AppSessions, id \in IdParams : GetWorkoutDays(user, id)
    \/ \E user \in AppSessions, id \in IdParams, body \in DayBodies :
          PostWorkoutDays(user, id, body) /\ Within
    \/ \E user \in AppSessions, body \in AppBodies : PostLogs(user, body) /\ Within
    \/ \E user \in AppSessions : GetLogs(user, Undefined, Undefined)
    \/ \E user \in AppSessions : GetStats(user, Undefined) /\ Instant
    \/ \E u \in Users : getWorkoutLogs(u, Undefined, Undefined)
    \/ \E u \in Users : getWorkoutStats(u, DefaultDays) /\ Instant

SpecApp == Init /\ [][NextApp]_vars

(* ----------------------------- WorkoutTimer ------------------------------ *)
\* What the component shares with the server: nothing.
serverVars == <<workoutLogs, currentWorkoutLogId, now, last, users, workouts, workoutDays,
                currentUserId, currentWorkoutId, currentWorkoutDayId, uploads, twin>>

\* timer.interval is the interval of timerRef: whether it is set, and the timerMode,
\* exerciseTime and restTime its callback holds, which are those of the render in which
\* toggleTimer was called. A cleared interval holds nothing.
NoInterval ==
    [active |-> FALSE, timerMode |-> "exercise", exerciseTime |-> 0, restTime |-> 0]

Larger(a, b) == IF a >= b THEN a ELSE b
Smaller(a, b) == IF a <= b THEN a ELSE b

\* toggleTimer: the play / pause button
toggleTimer ==
    /\ timer' =
          IF timer.isRunning
          THEN [timer EXCEPT !.interval = NoInterval, !.isRunning = FALSE]
          ELSE [timer EXCEPT
                  !.timerMode = IF timer.timeRemaining = 0 THEN "exercise" ELSE @,
                  !.timeRemaining = IF timer.timeRemaining = 0 THEN timer.exerciseTime ELSE @,
                  !.isRunning = TRUE,
                  !.interval = [active |-> TRUE,
                                timerMode |-> timer.timerMode,
                                exerciseTime |-> timer.exerciseTime,
                                restTime |-> timer.restTime]]
    /\ UNCHANGED serverVars

\* The callback of the interval, once a second.
intervalFires ==
    /\ timer.interval.active
    /\ timer' =
          IF timer.timeRemaining <= 1
          THEN LET newMode == IF timer.interval.timerMode = "exercise"
                              THEN "rest" ELSE "exercise"
               IN  [timer EXCEPT
                      !.timerMode = newMode,
                      !.timeRemaining = IF newMode = "exercise"
                                        THEN timer.interval.exerciseTime
                                        ELSE timer.interval.restTime]
          ELSE [timer EXCEPT !.timeRemaining = @ - 1]
    /\ UNCHANGED serverVars

\* resetTimer: the reset button
resetTimer ==
    /\ timer' = [timer EXCEPT !.interval = NoInterval, !.isRunning = FALSE,
                              !.timeRemaining = 0, !.timerMode = "exercise"]
    /\ UNCHANGED serverVars

\* The - and + buttons of the exercise time and of the rest time, disabled while the
\* timer is running.
exerciseTimeMinus ==
    /\ ~timer.isRunning
    /\ timer' = [timer EXCEPT !.exerciseTime = Larger(5, @ - 5)]
    /\ UNCHANGED serverVars

exerciseTimePlus ==
    /\ ~timer.isRunning
    /\ timer.exerciseTime < MaxExerciseTime
    /\ timer' = [timer EXCEPT !.exerciseTime = Smaller(300, @ + 5)]
    /\ UNCHANGED serverVars

restTimeMinus ==
    /\ ~timer.isRunning
    /\ timer' = [timer EXCEPT !.restTime = Larger(5, @ - 5)]
    /\ UNCHANGED serverVars

restTimePlus ==
    /\ ~timer.isRunning
    /\ timer.restTime < MaxRestTime
    /\ timer' = [timer EXCEPT !.restTime = Smaller(180, @ + 5)]
    /\ UNCHANGED serverVars

\* calculateProgress(), as the quotient of two integers it is: 283 - (timeRemaining /
\* totalTime) * 283.
calculateProgress ==
    LET totalTime == IF timer.timerMode = "exercise" THEN timer.exerciseTime
                     ELSE timer.restTime
    IN  IF totalTime = 0 THEN Whole(283)
        ELSE Ratio(283 * totalTime - timer.timeRemaining * 283, totalTime)

NextTimer ==
    \/ toggleTimer
    \/ intervalFires
    \/ resetTimer
    \/ exerciseTimeMinus
    \/ exerciseTimePlus
    \/ restTimeMinus
    \/ restTimePlus

SpecTimer == Init /\ [][NextTimer]_vars

(* ------------------------------- claims --------------------------------- *)
SeqSet(seq) == {seq[k] : k \in DOMAIN seq}

\* The stored logs of userId whose date is within the bounds given; a comparison with an
\* Invalid Date is false, as every comparison with NaN.
Matching(userId, startDate, endDate) ==
    {i \in DOMAIN workoutLogs :
        /\ workoutLogs[i].userId = userId
        /\ startDate = Undefined \/ (startDate.t = "date" /\ startDate.n <= workoutLogs[i].date)
        /\ endDate = Undefined \/ (endDate.t = "date" /\ workoutLogs[i].date <= endDate.n)}

\* C1: getWorkoutLogs(u, startDate, endDate) returns exactly the stored logs of u with
\* startDate <= date <= endDate, an omitted bound imposing nothing: each of them once,
\* and no other log.
C1_ListLogsExact ==
    last.op = "getWorkoutLogs" =>
        LET matching == Matching(last.userId, last.startDate, last.endDate)
        IN  /\ SeqSet(last.result) = {workoutLogs[i] : i \in matching}
            /\ Len(last.result) = Cardinality(matching)

\* Both bounds given, a log returned, one log of the user before startDate and one after
\* endDate left out.
W1_ListLogsBothBounds ==
    /\ last.op = "getWorkoutLogs"
    /\ last.startDate.t = "date" /\ last.endDate.t = "date"
    /\ last.result # <<>>
    /\ \E i \in DOMAIN workoutLogs :
          workoutLogs[i].userId = last.userId /\ workoutLogs[i].date < last.startDate.n
    /\ \E i \in DOMAIN workoutLogs :
          workoutLogs[i].userId = last.userId /\ workoutLogs[i].date > last.endDate.n

\* C6: the sequence getWorkoutLogs returns is sorted non-increasing by date.
C6_ListLogsSorted ==
    last.op = "getWorkoutLogs" =>
        \A k \in 1 .. Len(last.result) - 1 : last.result[k].date >= last.result[k + 1].date

\* Two logs returned in the reverse of the order they were created in.
W6_ListLogsReordered ==
    /\ last.op = "getWorkoutLogs"
    /\ Len(last.result) >= 2
    /\ last.result[1].date > last.result[2].date
    /\ last.result[1].id > last.result[2].id

\* The stored logs of userId dated from `from` to `to`, both included.
InRange(userId, from, to) ==
    {i \in DOMAIN workoutLogs :
        /\ workoutLogs[i].userId = userId
        /\ from <= workoutLogs[i].date
        /\ workoutLogs[i].date <= to}

RECURSIVE WaterOver(_)
WaterOver(indices) ==
    IF indices = {} THEN 0
    ELSE LET i == CHOOSE x \in indices : TRUE
         IN  workoutLogs[i].waterIntake + WaterOver(indices \ {i})

RECURSIVE DurationOver(_)
DurationOver(indices) ==
    IF indices = {} THEN 0
    ELSE LET i == CHOOSE x \in indices : TRUE
         IN  workoutLogs[i].duration + DurationOver(indices \ {i})

\* C2: getWorkoutStats(userId, days) aggregates exactly the logs of the user dated within
\* [endDate - days, endDate], endDate being the one reading of the clock.
C2_WindowFromOneReading ==
    last.op = "getWorkoutStats" =>
        LET c == last.call
        IN  SeqSet(c.logs) =
                {workoutLogs[i] : i \in InRange(c.userId, c.endDate.n - c.days * DayLen, c.endDate.n)}

\* C3: when at least one log is in the window [startDate, endDate] of the call,
\* totalWorkouts is the number of the user's logs in it, totalWaterIntake the sum of their
\* waterIntake and totalDuration the sum of their duration.
C3_TotalsOverWindow ==
    last.op = "getWorkoutStats" =>
        LET c      == last.call
            window == InRange(c.userId, c.startDate.n, c.endDate.n)
        IN  window # {} =>
                /\ c.result.totalWorkouts = Cardinality(window)
                /\ c.result.totalWaterIntake = WaterOver(window)
                /\ c.result.totalDuration = DurationOver(window)

\* Two logs counted, water and time among them, and a stored log not counted.
W3_TotalsOfSeveralLogs ==
    /\ last.op = "getWorkoutStats"
    /\ last.call.result.totalWorkouts >= 2
    /\ last.call.result.totalWaterIntake > 0
    /\ last.call.result.totalDuration > last.call.result.totalWaterIntake
    /\ Len(workoutLogs) > last.call.result.totalWorkouts

\* C5: when no log of the user is in the window [startDate, endDate] of the call, every
\* total, the average and the completion percentage are 0 and lastWorkoutDate is null,
\* whatever lies outside the window or belongs to other users.
C5_EmptyWindowAllZero ==
    last.op = "getWorkoutStats" =>
        LET c == last.call
        IN  InRange(c.userId, c.startDate.n, c.endDate.n) = {} =>
                /\ c.result.totalWorkouts = 0
                /\ c.result.totalWaterIntake = 0
                /\ c.result.totalDuration = 0
                /\ c.result.averageWaterPerWorkout = FloatZero
                /\ c.result.completionPercentage.num = 0
                /\ c.result.lastWorkoutDate = Null

\* All-zero stats while the user has a log outside the window and another user has a log
\* inside it.
W5_EmptyWindowOthersInside ==
    /\ last.op = "getWorkoutStats"
    /\ last.call.days > 0
    /\ last.call.result.totalWorkouts = 0
    /\ last.call.result.lastWorkoutDate = Null
    /\ \E i \in DOMAIN workoutLogs :
          /\ workoutLogs[i].userId = last.call.userId
          /\ workoutLogs[i].date > last.call.endDate.n
    /\ \E i \in DOMAIN workoutLogs :
          /\ workoutLogs[i].userId # last.call.userId
          /\ workoutLogs[i].date >= last.call.startDate.n
          /\ workoutLogs[i].date <= last.call.endDate.n

\* C4: completionPercentage is 0 when expectedWorkouts = floor(days / 7) * 3 is 0 (every
\* days from 1 to 6, whatever the number of logs), and min(100, totalWorkouts /
\* expectedWorkouts * 100) otherwise: 100 once totalWorkouts >= expectedWorkouts > 0, and
\* never above 100.
C4_CompletionCapped ==
    last.op = "getWorkoutStats" =>
        LET c        == last.call
            expected == (c.days \div 7) * 3
            total    == c.result.totalWorkouts
            pct      == c.result.completionPercentage
        IN  /\ pct.den > 0
            /\ pct.num <= 100 * pct.den
            /\ c.days \in 1 .. 6 => expected = 0
            /\ expected = 0 => pct.num = 0
            /\ expected > 0 /\ total >= expected => pct.num = 100 * pct.den
            /\ expected > 0 /\ total < expected => pct.num * expected = total * 100 * pct.den

\* More workouts in the window than expected for it: the percentage is cut at 100.
W4_MoreThanExpected ==
    /\ last.op = "getWorkoutStats"
    /\ (last.call.days \div 7) * 3 > 0
    /\ last.call.result.totalWorkouts > (last.call.days \div 7) * 3
    /\ last.call.result.completionPercentage = Whole(100)

\* C7: every createWorkoutLog call takes an identifier greater than every identifier taken
\* before it, so different from each of them, in whatever order the calls of the store run.
C7_IdsStrictlyIncrease ==
    [][last'.op = "createWorkoutLog" =>
          /\ \A i \in DOMAIN workoutLogs : workoutLogs[i].id < last'.result.id
          /\ last'.result.id < currentWorkoutLogId'
          /\ Len(workoutLogs') = Len(workoutLogs) + 1]_vars

\* A third identifier taken, after calls for both users.
W7_ThirdIdTaken ==
    /\ last.op = "createWorkoutLog"
    /\ Len(workoutLogs) >= 3
    /\ \E i, j \in DOMAIN workoutLogs : workoutLogs[i].userId # workoutLogs[j].userId

\* The value a field of the returned record must have: the one supplied, else the default.
Supplied(field, dflt) == IF field = Undefined THEN dflt ELSE field

\* C8: createWorkoutLog returns a record holding every supplied value and the default of
\* every omitted field (date the current time, the three counts 0, notes and workoutId
\* null), and getWorkoutLogs of its user without bounds contains that record.
C8_CreateReturnsWhatItStores ==
    last.op = "createWorkoutLog" =>
        LET log    == last.log
            record == last.result
        IN  /\ record.userId = log.userId.n
            /\ record.workoutId = Supplied(log.workoutId, Null)
            /\ DateOf(record.date) = Supplied(log.date, DateOf(now))
            /\ Num(record.completedExercises) = Supplied(log.completedExercises, Num(0))
            /\ Num(record.waterIntake) = Supplied(log.waterIntake, Num(0))
            /\ Num(record.duration) = Supplied(log.duration, Num(0))
            /\ record.notes = Supplied(log.notes, Null)
            /\ record \in SeqSet(LogsOf(workoutLogs, record.userId, Undefined, Undefined))

\* A log created with every field supplied, its date not the clock's, after a log created
\* with every field omitted.
W8_SuppliedAfterDefaults ==
    /\ last.op = "createWorkoutLog"
    /\ last.log.date # Undefined /\ last.result.date # now
    /\ last.result.waterIntake > 0 /\ last.result.notes # Null
    /\ \E i \in DOMAIN workoutLogs :
          /\ workoutLogs[i].id < last.result.id
          /\ workoutLogs[i].notes = Null /\ workoutLogs[i].waterIntake = 0

\* C9: after any sequence of create-log requests, also requests supplying a negative
\* completedExercises, waterIntake or duration, every persisted log has the three counts
\* >= 0 (and a date that is a timestamp, as every date of the store is).
C9_PersistedCountsNonNegative ==
    \A i \in DOMAIN workoutLogs :
        /\ workoutLogs[i].completedExercises >= 0
        /\ workoutLogs[i].waterIntake >= 0
        /\ workoutLogs[i].duration >= 0

\* A string that is a number as a whole: an optional sign, then digits only.
IsNumeric(str) ==
    LET body == IF str # <<>> /\ Head(str) \in {"-", "+"} THEN Tail(str) ELSE str
    IN  body # <<>> /\ \A k \in DOMAIN body : IsDigit(body[k])

\* The number such a string denotes.
NumericValue(str) ==
    IF Head(str) = "-" THEN 0 - DigitsValue(Tail(str), 0)
    ELSE IF Head(str) = "+" THEN DigitsValue(Tail(str), 0)
    ELSE DigitsValue(str, 0)

\* C10: a days parameter of get-stats that is omitted, not a number or <= 0 is replaced by
\* 30, so that getWorkoutStats is always called with days > 0 and the response is the one
\* for 30 days.
C10_InvalidDaysBecome30 ==
    (last.op = "GET /api/stats" /\ last.status = 200) =>
        LET q == last.queryDays
            c == last.call
        IN  /\ c.days > 0
            /\ (q = Undefined \/ ~IsNumeric(q.s) \/ NumericValue(q.s) <= 0) =>
                  c.result = StatsCall(c.userId, 30, c.endDate.n, c.startRead).result

\* The answer a caller holds: the call just made, or the one made before it waited.
Answered == last.op \in {"getWorkoutStats", "held"}

\* C11 as stated: two getWorkoutStats calls for the same userId and days with no
\* createWorkoutLog between them return identical values, also when the clock has
\* advanced between the two calls.
C11_StatsSameWhateverTheClock ==
    [][(Answered /\ last'.op = "getWorkoutStats"
          /\ last'.call.userId = last.call.userId /\ last'.call.days = last.call.days)
        => last'.call.result = last.call.result]_vars

\* C11 as amended: two getWorkoutStats calls for the same userId and days with no
\* createWorkoutLog between them return identical values, also when the clock has
\* advanced between them, provided the same logs of the user are dated within the window
\* of both calls.
C11_StatsSameWhileWindowHoldsSameLogs ==
    [][(Answered /\ last'.op = "getWorkoutStats"
          /\ last'.call.userId = last.call.userId /\ last'.call.days = last.call.days
          /\ InRange(last.call.userId, last.call.startDate.n, last.call.endDate.n)
               = InRange(last.call.userId, last'.call.startDate.n, last'.call.endDate.n))
        => last'.call.result = last.call.result]_vars

\* An answer counting a log is held, the clock has advanced since, and the window of a
\* call made now is another one that holds the same logs of the user.
W11_ClockAdvancedSameLogs ==
    /\ last.op = "held"
    /\ last.call.result.totalWorkouts > 0
    /\ now > last.call.endDate.n
    /\ InRange(last.call.userId, now - last.call.days * DayLen, now)
         = InRange(last.call.userId, last.call.startDate.n, last.call.endDate.n)

\* C12: a persisted log stays in the store in every later state with every field
\* unchanged: no step of the application (a log, workout, workout-day, user or upload
\* request, a registration, a query of the store) modifies or deletes a log.
C12_LogsNeverChange ==
    [][\A i \in DOMAIN workoutLogs :
          /\ \E j \in DOMAIN workoutLogs' : workoutLogs'[j].id = workoutLogs[i].id
          /\ \A j \in DOMAIN workoutLogs' :
                workoutLogs'[j].id = workoutLogs[i].id => workoutLogs'[j] = workoutLogs[i]]_vars

\* A workout has been created, or a second log, while the store held a log.
W12_WroteBesideALog ==
    /\ Len(workoutLogs) >= 1
    /\ \/ last.op = "POST /api/workouts" /\ last.status = 201
       \/ last.op = "POST /api/logs" /\ last.status = 201 /\ Len(workoutLogs) >= 2

\* The two queries of the store, called directly or by their routes.
IsQuery(answer) ==
    \/ answer.op \in {"getWorkoutLogs", "getWorkoutStats"}
    \/ answer.op \in {"GET /api/logs", "GET /api/stats"} /\ answer.status = 200

\* C13: getWorkoutLogs and getWorkoutStats leave the whole store as it was: the logs and
\* each of their fields, the log id counter, the users, workouts and workout days and
\* their counters.
C13_QueriesChangeNothing ==
    [][IsQuery(last') =>
          UNCHANGED <<workoutLogs, currentWorkoutLogId, users, workouts, workoutDays,
                      currentUserId, currentWorkoutId, currentWorkoutDayId>>]_vars

\* A query of a user has answered while the store held a log of another user and a
\* user or a workout.
W13_QueriedAFilledStore ==
    /\ last.op \in {"getWorkoutLogs", "getWorkoutStats"}
    /\ \E i \in DOMAIN workoutLogs :
          workoutLogs[i].userId # (IF last.op = "getWorkoutLogs" THEN last.userId
                                   ELSE last.call.userId)
    /\ Len(users) + Len(workouts) >= 1

\* C14: when at least one log of the user is in the window [startDate, endDate] of the
\* call, lastWorkoutDate is the greatest date among those logs: the date of one of them,
\* not before the date of any of them, and inside the window.
C14_LastWorkoutIsLatestInWindow ==
    last.op = "getWorkoutStats" =>
        LET c      == last.call
            window == InRange(c.userId, c.startDate.n, c.endDate.n)
            latest == c.result.lastWorkoutDate
        IN  window # {} =>
                /\ latest.t = "date"
                /\ \E i \in window : workoutLogs[i].date = latest.n
                /\ \A i \in window : workoutLogs[i].date <= latest.n
                /\ c.startDate.n <= latest.n /\ latest.n <= c.endDate.n

\* Two logs of different dates in the window, the later one created first, and a still
\* later log of another user in the window.
W14_LatestAmongSeveral ==
    /\ last.op = "getWorkoutStats"
    /\ last.call.result.totalWorkouts >= 2
    /\ \E i, j \in InRange(last.call.userId, last.call.startDate.n, last.call.endDate.n) :
          /\ i < j
          /\ workoutLogs[i].date > workoutLogs[j].date
          /\ workoutLogs[i].date = last.call.result.lastWorkoutDate.n
    /\ \E i \in DOMAIN workoutLogs :
          /\ workoutLogs[i].userId # last.call.userId
          /\ workoutLogs[i].date > last.call.result.lastWorkoutDate.n
          /\ workoutLogs[i].date <= last.call.endDate.n

(* C15: averageWaterPerWorkout *)
\* The number the digits of a double before the binary point make.
RECURSIVE NatOfBits(_)
NatOfBits(bits) ==
    IF bits = <<>> THEN 0
    ELSE 2 * NatOfBits(SubSeq(bits, 1, Len(bits) - 1)) + bits[Len(bits)]

\* The digits bits with zeros before them, len together.
PadBits(bits, len) ==
    [k \in 1 .. len |-> IF k <= len - Len(bits) THEN 0 ELSE bits[k - (len - Len(bits))]]

\* d * n in JavaScript, for a double d and a small natural n: the digits of d are
\* multiplied in two halves, each product a number TLC can hold.
HalfBits == MantissaBits \div 2 + 1
FloatMul(d, n) ==
    IF d.bits = <<>> \/ n = 0 THEN FloatZero
    ELSE LET hi   == NatOfBits(SubSeq(d.bits, 1, MantissaBits - HalfBits))
             lo   == NatOfBits(SubSeq(d.bits, MantissaBits - HalfBits + 1, MantissaBits))
             low  == lo * n
             high == hi * n + low \div 2 ^ HalfBits
             p    == BitsOfNat(high) \o PadBits(BitsOfNat(low % 2 ^ HalfBits), HalfBits)
         IN  RoundToDouble(d.neg, d.exp + Len(p) - MantissaBits, p, FALSE)

\* The double an integer is.
FloatOfInt(x) == FloatDiv(x, 1)

\* What is left of r / n, in units of the last digit taken, once the binary digits bits
\* are taken from it: r * 2^Len(bits) - n * (the number bits make); n when it leaves
\* the range -n .. n on the way.
RECURSIVE Residue(_, _, _)
Residue(r, bits, n) ==
    IF r >= n \/ 0 - r >= n THEN n
    ELSE IF bits = <<>> THEN r
    ELSE Residue(2 * r - n * Head(bits), Tail(bits), n)

\* d is the double nearest to t / n (n > 0), the one with an even last digit of two
\* equally near: the distance from t / n is at most half a unit in the last place.
NearestDouble(d, t, n) ==
    IF t = 0 THEN d = FloatZero
    ELSE /\ d.neg = (t < 0)
         /\ Len(d.bits) = MantissaBits
         /\ d.bits[1] = 1
         /\ d.exp \in (0 - 24) .. 24
         /\ LET a    == Abs(t)
                int  == SubSeq(d.bits, 1, d.exp + 1)
                zero == [k \in 1 .. (0 - d.exp - 1) |-> 0]
                r    == IF d.exp >= 0
                        THEN Residue(a - n * NatOfBits(int),
                                     SubSeq(d.bits, d.exp + 2, MantissaBits), n)
                        ELSE Residue(a, zero \o d.bits, n)
            IN  \/ 2 * Abs(r) < n
                \/ 2 * Abs(r) = n /\ d.bits[MantissaBits] = 0

\* C15 as stated: the average is the exact quotient of the total water by the number of
\* workouts, so that multiplying it by the number of workouts gives the total again; it
\* is 0 when there are no logs.
C15_AverageTimesCountIsTotal ==
    last.op = "getWorkoutStats" =>
        LET r == last.call.result
        IN  IF r.totalWorkouts > 0
            THEN FloatMul(r.averageWaterPerWorkout, r.totalWorkouts)
                     = FloatOfInt(r.totalWaterIntake)
            ELSE r.averageWaterPerWorkout = FloatZero

\* C15, amended: the average is the double nearest to the quotient of the total water by
\* the number of workouts, not rounded or truncated any further, hence the quotient
\* itself when the number of workouts divides the total; it is 0 when there are no logs.
C15_AverageIsNearestDouble ==
    last.op = "getWorkoutStats" =>
        LET r == last.call.result
        IN  IF r.totalWorkouts > 0
            THEN /\ NearestDouble(r.averageWaterPerWorkout, r.totalWaterIntake,
                                  r.totalWorkouts)
                 /\ r.totalWaterIntake % r.totalWorkouts = 0 =>
                        r.averageWaterPerWorkout
                            = FloatOfInt(r.totalWaterIntake \div r.totalWorkouts)
            ELSE r.averageWaterPerWorkout = FloatZero

\* Seven workouts with 900 ml of water together: the quotient is no double.
W15_SevenLogsOf900 ==
    /\ last.op = "getWorkoutStats"
    /\ last.call.result.totalWorkouts = 7
    /\ last.call.result.totalWaterIntake = 900
    /\ last.call.result.averageWaterPerWorkout # FloatZero

(* C16: a user's results depend on the user's logs only *)
\* A log but for its id.
WithoutId(log) == [f \in DOMAIN log \ {"id"} |-> log[f]]
WithoutIds(logs) == [k \in DOMAIN logs |-> WithoutId(logs[k])]

\* getWorkoutLogs or getWorkoutStats has answered in both histories.
AnsweredInBoth == last.op \in {"getWorkoutLogs", "getWorkoutStats"}

\* The logs a call for TwinUser returned.
ReturnedLogs == IF last.op = "getWorkoutLogs" THEN last.result ELSE last.call.logs

\* C16 as stated: getWorkoutLogs and getWorkoutStats return for a user the same results
\* in two histories with the same createWorkoutLog calls for that user, whatever the
\* calls for other users; no returned log is of another user.
C16_SameResultsInBothHistories ==
    AnsweredInBoth =>
        /\ last.op = "getWorkoutLogs" => last.result = last.twin
        /\ last.op = "getWorkoutStats" => last.call.result = last.twin
        /\ \A k \in DOMAIN ReturnedLogs : ReturnedLogs[k].userId = TwinUser

\* C16, amended: in the two histories getWorkoutStats returns the same result and
\* getWorkoutLogs the same logs in the same order but for their ids, which come from
\* the one counter all users share; no returned log is of another user.
C16_SameResultsButForIds ==
    AnsweredInBoth =>
        /\ last.op = "getWorkoutLogs" => WithoutIds(last.result) = WithoutIds(last.twin)
        /\ last.op = "getWorkoutStats" => last.call.result = last.twin
        /\ \A k \in DOMAIN ReturnedLogs : ReturnedLogs[k].userId = TwinUser

\* Logs of TwinUser were returned, with other ids than in the history without the
\* calls for the other user.
W16_OtherUserCameFirst ==
    /\ last.op = "getWorkoutLogs"
    /\ Len(last.result) >= 2
    /\ last.startDate # Undefined
    /\ \E k \in DOMAIN last.result : last.result[k].id # last.twin[k].id
    /\ \E k \in DOMAIN workoutLogs :
            /\ workoutLogs[k].userId # TwinUser
            /\ OnOrAfter(workoutLogs[k], last.startDate)

(* C17: logs of equal date *)
\* The places of the result of a getWorkoutLogs call that hold the log with this id.
PlacesOf(id) == {k \in DOMAIN last.result : last.result[k].id = id}

\* C17: every log of the user within the bounds, one of several with the same date
\* included, is in the result of getWorkoutLogs exactly once, and two logs of equal date
\* are in it in the order of their creation: in the same order in every call, whatever
\* its bounds and whatever was created since.
C17_EqualDatesOnceAndInOneOrder ==
    last.op = "getWorkoutLogs" =>
        /\ \A k \in Matching(last.userId, last.startDate, last.endDate) :
                Cardinality(PlacesOf(workoutLogs[k].id)) = 1
        /\ \A i, j \in DOMAIN last.result :
                (i < j /\ last.result[i].date = last.result[j].date)
                    => last.result[i].id < last.result[j].id

\* A bounded call returned two logs of one date after a third, later dated log was
\* created.
W17_TwoOfOneDateAmongThree ==
    /\ last.op = "getWorkoutLogs"
    /\ last.startDate # Undefined
    /\ Len(last.result) = 3
    /\ \E i, j \in DOMAIN last.result :
            /\ i # j
            /\ last.result[i].date = last.result[j].date
    /\ \E i, j \in DOMAIN last.result :
            /\ last.result[i].date > last.result[j].date
            /\ last.result[i].id > last.result[j].id

(* C18: a rejected create-log request *)
\* C18: a create-log request answered 400 leaves the store as it was, the logs and the
\* log id counter included, so that an accepted request gets the id it would have got
\* without the rejected ones: one more than the number of logs accepted before it.
C18_RejectedRequestLeavesNoTrace ==
    [][last'.op = "POST /api/logs" =>
          /\ last'.status = 400 =>
                UNCHANGED <<workoutLogs, currentWorkoutLogId, users, workouts, workoutDays,
                            currentUserId, currentWorkoutId, currentWorkoutDayId, uploads>>
          /\ last'.status = 201 =>
                /\ last'.json.id = Len(workoutLogs) + 1
                /\ currentWorkoutLogId' = last'.json.id + 1]_vars

\* A request was rejected while the store held logs.
W18_RejectedAfterAccepted ==
    /\ last.op = "POST /api/logs"
    /\ last.status = 400
    /\ Len(workoutLogs) >= 2
    /\ currentWorkoutLogId = Len(workoutLogs) + 1

(* C19: statistics after a log was created *)
\* The store without its k-th log.
StoreWithout(k) == SelectSeq(workoutLogs, LAMBDA log : log.id # workoutLogs[k].id)

\* C19: getWorkoutStats(u, N) counts every log of u created, with the time of its
\* creation as its date, before the call and less than N days before it: its result is
\* the result of the same request on the store without that log, with one workout more
\* and the water and the duration of that log added.
C19_StatsCountRecentLog ==
    last.op = "getWorkoutStats" =>
        LET c == last.call
        IN  \A k \in DOMAIN workoutLogs :
                ( /\ workoutLogs[k].userId = c.userId
                  /\ workoutLogs[k].date <= c.endDate.n
                  /\ c.endDate.n - workoutLogs[k].date < c.days * DayLen )
                => LET without == StatsOf(LogsOf(StoreWithout(k), c.userId,
                                                 c.startDate, c.endDate), c.days)
                   IN  /\ c.result.totalWorkouts = without.totalWorkouts + 1
                       /\ c.result.totalWaterIntake
                              = without.totalWaterIntake + workoutLogs[k].waterIntake
                       /\ c.result.totalDuration
                              = without.totalDuration + workoutLogs[k].duration

(* C20: a create-log request for a workout that does not exist *)
\* The request names a workout the store does not hold.
NamesUnknownWorkout(body) ==
    /\ IsNumber(body.workoutId)
    /\ MapGet(workouts, body.workoutId.n) = Undefined

\* C20: a create-log request of a user whose workoutId is the id of no workout is
\* answered with a not-found error, and no log with the id of no workout is stored.
C20_UnknownWorkoutIsNotFound ==
    /\ ( /\ last.op = "POST /api/logs"
         /\ last.user # Undefined
         /\ NamesUnknownWorkout(last.body) ) => last.status = 404
    /\ \A k \in DOMAIN workoutLogs :
            workoutLogs[k].workoutId = Null
                \/ MapGet(workouts, workoutLogs[k].workoutId.n) # Undefined

(* C21: a list-logs request with a bound that is no timestamp *)
\* The parameter is given and its text is not that of a timestamp.
NotATimestamp(q) ==
    /\ q # Undefined
    /\ q.s # <<>>
    /\ \E k \in DOMAIN q.s : ~IsDigit(q.s[k])

\* C21: a list-logs request of a user whose startDate or endDate is given and is no
\* timestamp is answered with an error, not with a list of logs.
C21_BadBoundIsAnError ==
    ( /\ last.op = "GET /api/logs"
      /\ last.user # Undefined
      /\ NotATimestamp(last.startQuery) \/ NotATimestamp(last.endQuery) )
    => /\ last.status >= 400
       /\ "json" \notin DOMAIN last

(* C22: getWorkoutLogs when no log matches *)
\* C22: getWorkoutLogs returns a sequence, never an error, and the empty sequence when
\* no stored log is of the user and within the bounds: for a user without logs and for
\* a startDate after the endDate.
C22_NoMatchIsEmptyList ==
    last.op = "getWorkoutLogs" =>
        /\ "result" \in DOMAIN last
        /\ Matching(last.userId, last.startDate, last.endDate) = {}
              => last.result = <<>>

\* A user with logs asked for the logs from a startDate that is after the endDate.
W22_InvertedBounds ==
    /\ last.op = "getWorkoutLogs"
    /\ last.startDate.t = "date"
    /\ last.endDate.t = "date"
    /\ last.startDate.n > last.endDate.n
    /\ \E k \in DOMAIN workoutLogs : workoutLogs[k].userId = last.userId
    /\ "result" \in DOMAIN last
    /\ last.result = <<>>

(* C23: the modes of the running timer *)
\* The configured duration of a mode.
DurationOf(t, mode) == IF mode = "exercise" THEN t.exerciseTime ELSE t.restTime

\* C23: whenever the countdown of the running timer reaches its end, the mode becomes
\* the other mode and the remaining time the configured duration of that mode.
C23_ModesAlternate ==
    [][( /\ timer.isRunning
         /\ timer'.isRunning
         /\ timer.timeRemaining <= 1
         /\ timer' # timer )
       => /\ timer'.timerMode # timer.timerMode
          /\ timer'.timeRemaining = DurationOf(timer', timer'.timerMode)]_vars

(* C29: the ranges of the timer *)
\* C29: exerciseTime is a multiple of 5 in 5 .. 300 and restTime one in 5 .. 180, both
\* change only while the timer is not running, timeRemaining is between 0 and the
\* configured duration of the current mode, and the offset calculateProgress computes
\* is between 0 and 283.
C29_TimerWithinRanges ==
    /\ [](/\ timer.exerciseTime % 5 = 0
          /\ timer.exerciseTime \in 5 .. 300
          /\ timer.restTime % 5 = 0
          /\ timer.restTime \in 5 .. 180
          /\ timer.timeRemaining \in 0 .. DurationOf(timer, timer.timerMode)
          /\ RatLE(Whole(0), calculateProgress)
          /\ RatLE(calculateProgress, Whole(283)))
    /\ [][(timer'.exerciseTime # timer.exerciseTime \/ timer'.restTime # timer.restTime)
              => ~timer.isRunning]_vars

(* C24: the routes that take a workout id *)
WorkoutIdRoutes ==
    { "GET /api/workouts/:id", "GET /api/workouts/:workoutId/days",
      "POST /api/workouts/:workoutId/days", "POST /api/workouts/:id/csv" }

\* The request answered carries none of the data of a workout and has left the workouts,
\* their pdfUrl and the workout days as they were.
RefusedWithout(status) ==
    /\ last'.status = status
    /\ "json" \notin DOMAIN last'
    /\ UNCHANGED <<workouts, workoutDays, currentWorkoutId, currentWorkoutDayId>>

C25_RejectedUploadLeavesNoFile ==
    [][( /\ last'.op = "POST /api/workouts/:id/csv"
         /\ last'.status \in {401, 403, 404} )
       => /\ last'.path = Undefined \/ last'.path \notin uploads'
          /\ UNCHANGED workouts]_vars

(* C26: the owner of a log created through POST /api/logs *)
\* C26: a create-log request stores at most one log, the one it returns, and that log
\* is of the user of the session, whatever userId the body carries.
C26_LogIsOfTheSessionUser ==
    [][last'.op = "POST /api/logs" =>
          IF last'.status = 201
          THEN /\ last'.json.userId = last'.user.n
               /\ workoutLogs' = Append(workoutLogs, last'.json)
          ELSE workoutLogs' = workoutLogs]_vars

\* A request whose body carries the id of another user was accepted.
W26_BodyNamesAnotherUser ==
    /\ last.op = "POST /api/logs"
    /\ last.status = 201
    /\ last.body.userId # Undefined
    /\ last.body.userId # last.user
    /\ workoutLogs[Len(workoutLogs)] = last.json

(* C27: the three routes of the logs without a session *)
LogRoutes == {"POST /api/logs", "GET /api/logs", "GET /api/stats"}

\* C27: a request to one of the three routes of the logs that has no session is
\* answered 401 with neither a log, a list of logs nor statistics, and the logs and the
\* counter of their ids are after it what they were before.
C27_NoSessionIs401AndNothingElse ==
    [][(last'.op \in LogRoutes /\ last'.user = Undefined) =>
          /\ last'.status = 401
          /\ "json" \notin DOMAIN last'
          /\ "call" \notin DOMAIN last'
          /\ UNCHANGED <<workoutLogs, currentWorkoutLogId>>]_vars

\* The logs were asked for without a session while the store held logs.
W27_ListAskedWithoutSession ==
    /\ last.op = "GET /api/logs"
    /\ last.user = Undefined
    /\ last.status = 401
    /\ Len(workoutLogs) > 0

(* C28: the ranges of the statistics a request is answered with *)
AnsweredStats == last.op = "GET /api/stats" /\ last.status = 200

\* C28: in every answer of GET /api/stats the four totals and the average are not
\* negative, completionPercentage lies between 0 and 100, and lastWorkoutDate is absent
\* exactly when totalWorkouts is 0.
C28_StatsWithinRanges ==
    AnsweredStats =>
        LET stats == last.call.result
        IN  /\ stats.totalWorkouts >= 0
            /\ stats.totalWaterIntake >= 0
            /\ stats.totalDuration >= 0
            /\ ~stats.averageWaterPerWorkout.neg
            /\ RatLE(Whole(0), stats.completionPercentage)
            /\ RatLE(stats.completionPercentage, Whole(100))
            /\ (stats.lastWorkoutDate = Null) <=> (stats.totalWorkouts = 0)

(* C30: the ids of the logs and their counter *)
\* The ids of the stored logs, in the order of the map.
LogIds == [i \in DOMAIN workoutLogs |-> workoutLogs[i].id]

\* A step made a log: the store holds one log more.
MadeALog == Len(workoutLogs') = Len(workoutLogs) + 1

\* C30: the ids of the stored logs are 1 .. n, each once, n being the number of logs
\* created so far, and currentWorkoutLogId is n + 1; the counter moves only in a step
\* that creates a log, by one, and never in a step that creates a user, a workout or a
\* workout day.
C30_LogIdsAreOneToN ==
    /\ [](/\ LogIds = [i \in 1 .. Len(workoutLogs) |-> i]
          /\ currentWorkoutLogId = Len(workoutLogs) + 1)
    /\ [][/\ Len(workoutLogs') \in {Len(workoutLogs), Len(workoutLogs) + 1}
          /\ MadeALog <=> currentWorkoutLogId' = currentWorkoutLogId + 1
          /\ ~MadeALog => currentWorkoutLogId' = currentWorkoutLogId
          /\ <<users, workouts, workoutDays>>' # <<users, workouts, workoutDays>>
                => currentWorkoutLogId' = currentWorkoutLogId]_vars

\* A workout was created after a log, and the store holds a user, a workout or a
\* workout day beside the log.
W30_WorkoutCreatedAfterALog ==
    /\ Len(workoutLogs) >= 1
    /\ Len(workouts) >= 1
    /\ last.op = "POST /api/workouts"
    /\ last.status = 201

=============================================================================
